---- MODULE Spec2Model ----
(***************************************************************************)
(* The Shopify-webhook to SMS pipeline of Pshopi.  Four handler modules    *)
(* exist in the repository:                                                *)
(*   "v1"  src/api/index.js lines 1-207    (first module of the file)      *)
(*   "v2"  src/api/index.js lines 209-338  (second module of the file)     *)
(*   "u"   src/unnamed/part_000                                            *)
(*   "c"   src/index.js                    (in-process sentCount counter)  *)
(* One module is deployed per process (variable variant).  A handler is    *)
(* an async function: it runs synchronously from one await to the next, so *)
(* each action below is one such segment of one request.                   *)
(***************************************************************************)
EXTENDS Integers, Sequences, FiniteSets, TLC

VARIABLES
    variant,     \* which handler module the process runs
    secret,      \* process.env.SHOPIFY_WEBHOOK_SECRET
    sentCount,   \* src/index.js:6, module-level counter (used by variant "c")
    req          \* the requests being handled, by slot

vars == <<variant, secret, sentCount, req>>

\* ------------------------------------------------------------------ bounds
\* number of request slots served at the same time
NumReqs == 1
\* number of requests in progress at the same time in the concurrent runs
NumConc == 2

\* --------------------------------------------------------- program constants
MAX_QUOTA == 10
\* byte length of a SHA-256 digest
DigestLen == 32
\* /^\+?[0-9]{8,15}$/
PhoneMinDigits == 8
PhoneMaxDigits == 15

Slots == 1 .. NumReqs
ConcSlots == 1 .. NumConc
Variants == {"v1", "v2", "u", "c"}

\* ------------------------------------------------------------ JS values
\* A JavaScript value: t is its kind ("nan" is the number NaN), n its numeric
\* payload, s its characters (a string is a sequence of one-character strings).
Num(k) == [t |-> "number", n |-> k, s |-> <<>>]
Str(cs) == [t |-> "string", n |-> 0, s |-> cs]
Undef == [t |-> "undefined", n |-> 0, s |-> <<>>]
Null == [t |-> "null", n |-> 0, s |-> <<>>]
NaN == [t |-> "nan", n |-> 0, s |-> <<>>]

\* typeof v
TypeOf(v) ==
    CASE v.t \in {"number", "nan"} -> "number"
      [] v.t = "null" -> "object"
      [] OTHER -> v.t

\* !!v
Truthy(v) ==
    CASE v.t = "number" -> v.n # 0
      [] v.t = "string" -> Len(v.s) > 0
      [] OTHER -> FALSE

Digits == {"0", "1", "2", "3", "4", "5", "6", "7", "8", "9"}

DigitVal(c) ==
    CASE c = "0" -> 0 [] c = "1" -> 1 [] c = "2" -> 2 [] c = "3" -> 3
      [] c = "4" -> 4 [] c = "5" -> 5 [] c = "6" -> 6 [] c = "7" -> 7
      [] c = "8" -> 8 [] c = "9" -> 9

RECURSIVE DecimalValue(_)
DecimalValue(cs) ==
    IF cs = <<>> THEN 0
    ELSE 10 * DecimalValue(SubSeq(cs, 1, Len(cs) - 1)) + DigitVal(cs[Len(cs)])

\* ToNumber(v), as the relational operators and binary minus apply it.  For a
\* string: "" is 0, an unsigned or '-'-signed run of digits is its value,
\* anything else is NaN.
ToNumber(v) ==
    CASE v.t = "number" -> v
      [] v.t = "null" -> Num(0)
      [] v.t = "string" ->
            IF v.s = <<>> THEN Num(0)
            ELSE IF \A i \in 1 .. Len(v.s) : v.s[i] \in Digits
                 THEN Num(DecimalValue(v.s))
            ELSE IF Len(v.s) > 1 /\ v.s[1] = "-"
                    /\ \A i \in 2 .. Len(v.s) : v.s[i] \in Digits
                 THEN Num(0 - DecimalValue(Tail(v.s)))
            ELSE NaN
      [] OTHER -> NaN

\* v <= 0 : false whenever ToNumber(v) is NaN
LessEqZero(v) == ToNumber(v).t = "number" /\ ToNumber(v).n <= 0

\* MinusOne without the subtraction
MinusOneForgotten(v) == ToNumber(v)

\* v - 1
MinusOne(v) == IF ToNumber(v).t = "number" THEN Num(ToNumber(v).n - 1) ELSE NaN

\* ------------------------------------------------------------ request inputs
NoHeader == "<absent>"
\* !h for a header value: absent or the empty string
Missing(h) == h \in {NoHeader, ""}

TrueKey == "whsec"
NoEnv == "<unset>"

\* Raw request bodies, by their text.
BodyA == "{\"order\":{\"order_number\":\"1001\"},\"customer\":{\"phone\":\"+966500000000\"}}"
BodyNoPhone == "{\"order\":{\"order_number\":\"1002\"}}"
BodyBad == "order=1001&phone=0500000000"
Bodies == {BodyA, BodyNoPhone, BodyBad}
\* customer.phone is not a phone, shipping_address.phone is one
BodyLate == "{\"customer\":{\"phone\":\"n/a\"},\"shipping_address\":{\"phone\":\"+966500000005\"}}"
\* the only phone of the payload is not a phone
BodyNotAPhone == "{\"order\":{\"order_number\":\"1003\"},\"customer\":{\"phone\":\"n/a\"}}"

PhoneA == <<"+", "9", "6", "6", "5", "0", "0", "0", "0", "0", "0", "0", "0">>

\* A byte buffer: len bytes whose content is named by val.
Buf(len, key, body) == [len |-> len, key |-> key, body |-> body]

\* createHmac("sha256", key).update(body).digest(): HMAC-SHA256 is taken to be
\* collision free, so the digest is named by the pair it was computed from.
HmacSha256(key, body) == Buf(DigestLen, key, body)

\* The text of an x-shopify-hmac-sha256 header: either the base64 text of a
\* buffer, or text holding no base64 characters at all.
B64Text(buf) == [present |-> TRUE, b64 |-> TRUE, buf |-> buf]
JunkText == [present |-> TRUE, b64 |-> FALSE, buf |-> Buf(0, "", "")]
NoHmacHeader == [present |-> FALSE, b64 |-> FALSE, buf |-> Buf(0, "", "")]
ShortSig == B64Text(Buf(3, "", ""))
\* what Shopify sends for body b
SigOf(b) == B64Text(HmacSha256(TrueKey, b))

\* digest("base64")
Base64Encode(buf) == B64Text(buf)
\* Buffer.from(text, "base64"): never throws; characters outside the alphabet
\* are dropped, so text without any base64 character decodes to no bytes.
Base64Decode(text) == IF text.b64 THEN text.buf ELSE Buf(0, "", "")

Methods == {"POST", "GET"}
TopicHeaders == {NoHeader, "orders/create", "orders/paid", "orders/weird_event", "constructor"}
DomainHeaders == {"", "shop.myshopify.com"}
HmacHeaders == {NoHmacHeader, ShortSig, JunkText} \cup {SigOf(b) : b \in Bodies}
HeaderSets == [topic : TopicHeaders, domain : DomainHeaders, hmac : HmacHeaders]

\* The decoded payload: the fields the handlers read, each a JS value
\* (Undef when the key, or a key on the way to it, is absent).
NoData ==
    [customer_phone |-> Undef, order_customer_phone |-> Undef,
     checkout_billing_phone |-> Undef, billing_phone |-> Undef,
     shipping_phone |-> Undef, order_number |-> Undef,
     financial_status |-> Undef]

\* JSON.parse(rawBody.toString("utf8"))
JSONParse(b) ==
    CASE b = BodyA ->
            [threw |-> FALSE,
             val |-> [NoData EXCEPT !.customer_phone = Str(PhoneA),
                                    !.order_number = Str(<<"1", "0", "0", "1">>)]]
      [] b = BodyNoPhone ->
            [threw |-> FALSE,
             val |-> [NoData EXCEPT !.order_number = Str(<<"1", "0", "0", "2">>)]]
      [] b = BodyLate ->
            [threw |-> FALSE,
             val |-> [NoData EXCEPT
                        !.customer_phone = Str(<<"n", "/", "a">>),
                        !.shipping_phone = Str(<<"+", "9", "6", "6", "5", "0", "0", "0",
                                                 "0", "0", "0", "0", "5">>)]]
      [] b = BodyNotAPhone ->
            [threw |-> FALSE,
             val |-> [NoData EXCEPT !.customer_phone = Str(<<"n", "/", "a">>),
                                    !.order_number = Str(<<"1", "0", "0", "3">>)]]
      [] OTHER -> [threw |-> TRUE, val |-> NoData]

\* An axios.post outcome: ok is FALSE when the promise rejects (transport
\* error or non-2xx status); data is response.data, Status its Status field.
Reply(data, status) == [ok |-> TRUE, data |-> data, Status |-> status]
Rejected == [ok |-> FALSE, data |-> Undef, Status |-> ""]
NoReply == [ok |-> FALSE, data |-> Null, Status |-> "<none>"]

CreditReplies ==
    {Rejected} \cup
    {Reply(d, "") : d \in {Num(-5), Num(0), Num(1), Num(5),
                           Str(<<"E", "R", "R">>)}}
GatewayReplies == {Rejected, Reply(Null, "Success"), Reply(Null, "Failed")}

\* ------------------------------------------------------------ request state
NoMessage == [tpl |-> "", kind |-> "none", number |-> <<>>, tail |-> <<>>]
NoBody == "<unread>"

Idle ==
    [pc |-> "idle", method |-> "", headers |-> [topic |-> NoHeader, domain |-> NoHeader,
                                                 hmac |-> NoHmacHeader],
     rawBody |-> NoBody, hmacOk |-> "unset", data |-> NoData, phone |-> Undef,
     credit |-> NoReply, remainingQuota |-> Undef, message |-> NoMessage,
     dispatch |-> <<>>, gateway |-> NoReply, trace |-> <<>>, responses |-> <<>>]

\* one more executed step in the request's trace
Step(q, name) == [q EXCEPT !.trace = Append(@, name)]

ErrorBody == [success |-> FALSE, remaining_quota |-> Undef, sent |-> Undef, remaining |-> Undef]

\* res.status(code).json(body)
Respond(q, code, body) ==
    [q EXCEPT !.responses = Append(@, [status |-> code, body |-> body]),
              !.trace = Append(@, "res.status"),
              !.pc = "done"]

\* An outcome of a call that may throw.
Ret(v) == [threw |-> FALSE, val |-> v]
Throw(v) == [threw |-> TRUE, val |-> v]

\* crypto.timingSafeEqual(a, b): a RangeError when the byte lengths differ
timingSafeEqual(a, b) == IF a.len # b.len THEN Throw(FALSE) ELSE Ret(a = b)

\* The object literal of a template table inherits Object.prototype, so
\* table[key] is a truthy non-string for these keys.
InheritedKeys == {"constructor", "toString", "valueOf", "hasOwnProperty", "__proto__"}
Inherited(key) == [tpl |-> key, kind |-> "inherited", number |-> <<>>, tail |-> <<>>]
Text(tpl, number, tail) == [tpl |-> tpl, kind |-> "string", number |-> number, tail |-> tail]

UndefinedChars == <<"u", "n", "d", "e", "f", "i", "n", "e", "d">>
\* `${v}` inside a template literal
Interpolate(v) ==
    CASE v.t = "string" -> v.s
      [] v.t = "undefined" -> UndefinedChars
      [] v.t = "null" -> <<"n", "u", "l", "l">>
      [] OTHER -> <<"#">>

\* ====================================================================
\* Variant "v1": src/api/index.js, lines 1-207
\* ====================================================================

verifyHmac1(key, hmacHeader, body) ==
    IF key = NoEnv THEN Ret(FALSE)
    ELSE LET generatedHash == Base64Encode(HmacSha256(key, body))
             cmp == timingSafeEqual(Base64Decode(generatedHash), Base64Decode(hmacHeader))
         IN  IF cmp.threw THEN Ret(FALSE) ELSE Ret(cmp.val)

\* /^\+?[0-9]{8,15}$/.test(phone)
isValidPhone(phone) ==
    /\ phone.t = "string"
    /\ LET cs == phone.s
           ds == IF cs # <<>> /\ cs[1] = "+" THEN Tail(cs) ELSE cs
       IN  /\ Len(ds) >= PhoneMinDigits
           /\ Len(ds) <= PhoneMaxDigits
           /\ \A i \in 1 .. Len(ds) : ds[i] \in Digits

\* the values at phonePaths, in the order of the list
PhonePaths1(data) ==
    <<data.customer_phone, data.order_customer_phone, data.checkout_billing_phone,
      data.billing_phone, data.shipping_phone>>

RECURSIVE FirstValid(_)
FirstValid(values) ==
    IF values = <<>> THEN Null
    ELSE IF Truthy(Head(values)) /\ isValidPhone(Head(values)) THEN Head(values)
    ELSE FirstValid(Tail(values))

extractPhoneNumber1(data) == FirstValid(PhonePaths1(data))

createNotificationMessage1(eventType, data) ==
    CASE eventType = "orders/create" ->
            Text(eventType, Interpolate(data.order_number), <<>>)
      [] eventType = "orders/cancelled" ->
            Text(eventType, Interpolate(data.order_number), <<>>)
      [] eventType = "orders/updated" ->
            Text(eventType, Interpolate(data.order_number),
                 Interpolate(data.financial_status))
      [] eventType = "orders/paid" ->
            Text(eventType, Interpolate(data.order_number), <<>>)
      [] eventType = "orders/fulfilled" ->
            Text(eventType, Interpolate(data.order_number), <<>>)
      [] eventType \in InheritedKeys -> Inherited(eventType)
      [] OTHER -> NoMessage

\* checkCredit, from the reply of axios.post on
checkCredit1(reply) ==
    IF ~reply.ok THEN Throw(Undef)
    ELSE IF TypeOf(reply.data) # "number" THEN Throw(Undef)
    ELSE Ret(reply.data)

\* sendSMS, from the reply of axios.post on
sendSMS1(reply) ==
    IF ~reply.ok THEN Throw(Undef)
    ELSE IF reply.Status # "Success" THEN Throw(Undef)
    ELSE Ret(reply.data)

\* lines 5-26: up to the first await
Receive1(q, m, h) ==
    LET q0 == Step([q EXCEPT !.method = m, !.headers = h], "method")
    IN  IF m # "POST" THEN Respond(q0, 405, ErrorBody)
        ELSE LET q1 == Step(q0, "headers")
             IN  IF Missing(h.topic) \/ Missing(h.domain) \/ ~h.hmac.present
                 THEN Respond(q1, 401, ErrorBody)
                 ELSE [Step(q1, "getRawBody") EXCEPT !.pc = "getRawBody"]

\* lines 26-51: from the raw body to the credit request
OnBody1(q, key, stream) ==
    IF ~stream.ok THEN Respond(q, 500, ErrorBody)
    ELSE
    LET v == verifyHmac1(key, q.headers.hmac, stream.body)
        q1 == [Step(q, "verifyHmac") EXCEPT
                  !.rawBody = stream.body,
                  !.hmacOk = IF v.threw THEN "threw" ELSE IF v.val THEN "true" ELSE "false"]
    IN  IF v.threw THEN Respond(q1, 500, ErrorBody)
        ELSE IF ~v.val THEN Respond(q1, 401, ErrorBody)
        ELSE
        LET p == JSONParse(stream.body)
            q2 == Step(q1, "JSON.parse")
        IN  IF p.threw THEN Respond(q2, 500, ErrorBody)
            ELSE
            LET phone == extractPhoneNumber1(p.val)
                q3 == [Step(q2, "extractPhoneNumber") EXCEPT
                          !.data = p.val, !.phone = phone]
            IN  IF ~Truthy(phone) THEN Respond(q3, 400, ErrorBody)
                ELSE [Step(q3, "checkCredit") EXCEPT !.pc = "checkCredit"]

\* OnCredit1 without the return in front of res.status(402)
OnCredit1NoReturn(q, reply) ==
    LET c == checkCredit1(reply)
        q1 == [q EXCEPT !.credit = reply]
    IN  IF c.threw THEN Respond(q1, 500, ErrorBody)
        ELSE
        LET q2 == IF LessEqZero(c.val)
                  THEN Respond([q1 EXCEPT !.remainingQuota = c.val], 402, ErrorBody)
                  ELSE [q1 EXCEPT !.remainingQuota = c.val]
            message == createNotificationMessage1(q.headers.topic, q.data)
            q3 == [Step(q2, "createNotificationMessage") EXCEPT !.message = message]
        IN  IF message = NoMessage THEN Respond(q3, 400, ErrorBody)
            ELSE [Step(q3, "sendSMS") EXCEPT
                     !.pc = "sendSMS",
                     !.dispatch = Append(@, [SMSReceiver |-> q.phone,
                                             SMSText |-> message])]

\* lines 51-74: from the credit reply to the gateway request
OnCredit1(q, reply) ==
    LET c == checkCredit1(reply)
        q1 == [q EXCEPT !.credit = reply]
    IN  IF c.threw THEN Respond(q1, 500, ErrorBody)
        ELSE
        LET q2 == [q1 EXCEPT !.remainingQuota = c.val]
        IN  IF LessEqZero(c.val) THEN Respond(q2, 402, ErrorBody)
            ELSE
            LET message == createNotificationMessage1(q.headers.topic, q.data)
                q3 == [Step(q2, "createNotificationMessage") EXCEPT !.message = message]
            IN  IF message = NoMessage THEN Respond(q3, 400, ErrorBody)
                ELSE [Step(q3, "sendSMS") EXCEPT
                         !.pc = "sendSMS",
                         !.dispatch = Append(@, [SMSReceiver |-> q.phone,
                                                 SMSText |-> message])]

\* lines 74-83: from the gateway reply to the response
OnGateway1(q, reply) ==
    LET s == sendSMS1(reply)
        q1 == [q EXCEPT !.gateway = reply]
    IN  IF s.threw THEN Respond(q1, 500, ErrorBody)
        ELSE Respond(q1, 200, [success |-> TRUE,
                               remaining_quota |-> MinusOne(q.remainingQuota),
                               sent |-> Undef, remaining |-> Undef])

\* ====================================================================
\* Variant "v2": src/api/index.js, lines 209-338
\* ====================================================================

\* createHmac("sha256", key): a TypeError when the key is undefined
createHmac(key, body) == IF key = NoEnv THEN Throw(Buf(0, "", "")) ELSE Ret(HmacSha256(key, body))

\* no try/catch: both createHmac and timingSafeEqual may throw
verifyHmac2(key, hmac, body) ==
    LET digest == createHmac(key, body)
    IN  IF digest.threw THEN Throw(FALSE)
        ELSE timingSafeEqual(Base64Decode(Base64Encode(digest.val)), Base64Decode(hmac))

RECURSIVE FirstTruthy(_, _)
\* a || b || ... || last
FirstTruthy(values, last) ==
    IF values = <<>> THEN last
    ELSE IF Truthy(Head(values)) THEN Head(values)
    ELSE FirstTruthy(Tail(values), last)

extractPhoneNumber2(data) ==
    FirstTruthy(<<data.customer_phone, data.order_customer_phone,
                  data.checkout_billing_phone, data.billing_phone,
                  data.shipping_phone>>, Null)

\* the placeholder of variant "v2" (Arabic for "without number", transliterated)
NoNumber2 == <<"b", "d", "w", "n", " ", "r", "q", "m">>

createMessage2(topic, data) ==
    LET orderNumber == IF Truthy(data.order_number) THEN Interpolate(data.order_number)
                       ELSE NoNumber2
    IN  CASE topic \in {"orders/create", "orders/cancelled", "orders/updated",
                        "orders/fulfilled", "orders/paid"} ->
                Text(topic, orderNumber, <<>>)
          [] topic \in InheritedKeys -> Inherited(topic)
          [] OTHER -> NoMessage

checkCredit2(reply) ==
    IF ~reply.ok THEN Throw(Undef)
    ELSE IF TypeOf(reply.data) # "number" THEN Throw(Undef)
    ELSE Ret(reply.data)

sendSMS2(reply) ==
    IF ~reply.ok THEN Throw(Undef)
    ELSE IF reply.Status # "Success" THEN Throw(Undef)
    ELSE Ret(reply.data)

\* Receive2 with the shop-domain header left out of the presence check
Receive2NoDomainCheck(q, m, h) ==
    LET q0 == Step([q EXCEPT !.method = m, !.headers = h], "method")
    IN  IF m # "POST" THEN Respond(q0, 405, ErrorBody)
        ELSE LET q1 == Step(q0, "headers")
             IN  IF ~h.hmac.present \/ Missing(h.topic)
                 THEN Respond(q1, 401, ErrorBody)
                 ELSE [Step(q1, "getRawBody") EXCEPT !.pc = "getRawBody"]

\* lines 213-226
Receive2(q, m, h) ==
    LET q0 == Step([q EXCEPT !.method = m, !.headers = h], "method")
    IN  IF m # "POST" THEN Respond(q0, 405, ErrorBody)
        ELSE LET q1 == Step(q0, "headers")
             IN  IF ~h.hmac.present \/ Missing(h.topic) \/ Missing(h.domain)
                 THEN Respond(q1, 401, ErrorBody)
                 ELSE [Step(q1, "getRawBody") EXCEPT !.pc = "getRawBody"]

\* lines 226-239
OnBody2(q, key, stream) ==
    IF ~stream.ok THEN Respond(q, 500, ErrorBody)
    ELSE
    LET v == verifyHmac2(key, q.headers.hmac, stream.body)
        q1 == [Step(q, "verifyHmac") EXCEPT
                  !.rawBody = stream.body,
                  !.hmacOk = IF v.threw THEN "threw" ELSE IF v.val THEN "true" ELSE "false"]
    IN  IF v.threw THEN Respond(q1, 500, ErrorBody)
        ELSE IF ~v.val THEN Respond(q1, 401, ErrorBody)
        ELSE
        LET p == JSONParse(stream.body)
            q2 == Step(q1, "JSON.parse")
        IN  IF p.threw THEN Respond(q2, 500, ErrorBody)
            ELSE
            LET phone == extractPhoneNumber2(p.val)
                q3 == [Step(q2, "extractPhoneNumber") EXCEPT
                          !.data = p.val, !.phone = phone]
            IN  IF ~Truthy(phone) THEN Respond(q3, 400, ErrorBody)
                ELSE [Step(q3, "checkCredit") EXCEPT !.pc = "checkCredit"]

\* lines 239-249
OnCredit2(q, reply) ==
    LET c == checkCredit2(reply)
        q1 == [q EXCEPT !.credit = reply]
    IN  IF c.threw THEN Respond(q1, 500, ErrorBody)
        ELSE
        LET q2 == [q1 EXCEPT !.remainingQuota = c.val]
        IN  IF LessEqZero(c.val) THEN Respond(q2, 402, ErrorBody)
            ELSE
            LET message == createMessage2(q.headers.topic, q.data)
                q3 == [Step(q2, "createNotificationMessage") EXCEPT !.message = message]
            IN  IF message = NoMessage THEN Respond(q3, 400, ErrorBody)
                ELSE [Step(q3, "sendSMS") EXCEPT
                         !.pc = "sendSMS",
                         !.dispatch = Append(@, [SMSReceiver |-> q.phone,
                                                 SMSText |-> message])]

\* OnGateway2 with one more attempt after a send that failed
OnGateway2Retry(q, reply) ==
    LET s == sendSMS2(reply)
        q1 == [q EXCEPT !.gateway = reply]
    IN  IF s.threw
        THEN IF Len(q.dispatch) < 2
             THEN [q1 EXCEPT !.dispatch = Append(@, q.dispatch[1])]
             ELSE Respond(q1, 500, ErrorBody)
        ELSE Respond(q1, 200, [success |-> TRUE,
                               remaining_quota |-> MinusOne(q.remainingQuota),
                               sent |-> Undef, remaining |-> Undef])

\* lines 249-255
OnGateway2(q, reply) ==
    LET s == sendSMS2(reply)
        q1 == [q EXCEPT !.gateway = reply]
    IN  IF s.threw THEN Respond(q1, 500, ErrorBody)
        ELSE Respond(q1, 200, [success |-> TRUE,
                               remaining_quota |-> MinusOne(q.remainingQuota),
                               sent |-> Undef, remaining |-> Undef])

\* ====================================================================
\* Variant "u": src/unnamed/part_000
\* ====================================================================

verifyHmacU(key, hmacHeader, body) ==
    LET digest == createHmac(key, body)
    IN  IF digest.threw THEN Throw(FALSE)
        ELSE timingSafeEqual(Base64Decode(Base64Encode(digest.val)),
                             Base64Decode(hmacHeader))

\* a || b || c : the last operand is the result when none is truthy
extractPhoneNumberU(data) ==
    FirstTruthy(<<data.customer_phone, data.order_customer_phone>>,
                data.checkout_billing_phone)

NotAvailable == <<"N", "/", "A">>

\* store is process.env.STORE_CONTACT
createNotificationMessageU(eventType, data, store) ==
    LET orderNumber == IF Truthy(data.order_number) THEN Interpolate(data.order_number)
                       ELSE NotAvailable
    IN  CASE eventType = "orders/create" -> Text(eventType, orderNumber, <<>>)
          [] eventType = "orders/cancelled" -> Text(eventType, orderNumber, Interpolate(store))
          [] eventType = "orders/updated" ->
                Text(eventType, orderNumber, Interpolate(data.financial_status))
          [] eventType \in InheritedKeys -> Inherited(eventType)
          [] OTHER -> NoMessage

\* the catch rethrows both a rejected request and the -5 error
checkCreditU(reply) ==
    IF ~reply.ok THEN Throw(Undef)
    ELSE IF reply.data = Num(-5) THEN Throw(Undef)
    ELSE Ret(reply.data)

sendSMSU(reply) ==
    IF ~reply.ok THEN Throw(Undef)
    ELSE IF reply.Status # "Success" THEN Throw(Undef)
    ELSE Ret(Undef)

\* process.env.STORE_CONTACT / STORE_PHONE: not set
StoreContact == Undef

\* ReceiveU with the header check placed before the method check
ReceiveUHeadersFirst(q, m, h) ==
    LET q0 == Step([q EXCEPT !.method = m, !.headers = h], "headers")
    IN  IF Missing(h.topic) \/ Missing(h.domain) \/ ~h.hmac.present
        THEN Respond(q0, 401, ErrorBody)
        ELSE LET q1 == Step(q0, "method")
             IN  IF m # "POST" THEN Respond(q1, 405, ErrorBody)
                 ELSE [Step(q1, "getRawBody") EXCEPT !.pc = "getRawBody"]

\* lines 6-22
ReceiveU(q, m, h) ==
    LET q0 == Step([q EXCEPT !.method = m, !.headers = h], "method")
    IN  IF m # "POST" THEN Respond(q0, 405, ErrorBody)
        ELSE LET q1 == Step(q0, "headers")
             IN  IF Missing(h.topic) \/ Missing(h.domain) \/ ~h.hmac.present
                 THEN Respond(q1, 401, ErrorBody)
                 ELSE [Step(q1, "getRawBody") EXCEPT !.pc = "getRawBody"]

\* lines 22-38
OnBodyU(q, key, stream) ==
    IF ~stream.ok THEN Respond(q, 500, ErrorBody)
    ELSE
    LET v == verifyHmacU(key, q.headers.hmac, stream.body)
        q1 == [Step(q, "verifyHmac") EXCEPT
                  !.rawBody = stream.body,
                  !.hmacOk = IF v.threw THEN "threw" ELSE IF v.val THEN "true" ELSE "false"]
    IN  IF v.threw THEN Respond(q1, 500, ErrorBody)
        ELSE IF ~v.val THEN Respond(q1, 401, ErrorBody)
        ELSE
        LET p == JSONParse(stream.body)
            q2 == Step(q1, "JSON.parse")
        IN  IF p.threw THEN Respond(q2, 500, ErrorBody)
            ELSE
            LET phone == extractPhoneNumberU(p.val)
                q3 == [Step(q2, "extractPhoneNumber") EXCEPT
                          !.data = p.val, !.phone = phone]
            IN  IF ~Truthy(phone) THEN Respond(q3, 400, ErrorBody)
                ELSE [Step(q3, "checkCredit") EXCEPT !.pc = "checkCredit"]

\* OnCreditU without the remainingQuota <= 0 test
OnCreditUNoQuotaCheck(q, reply) ==
    LET c == checkCreditU(reply)
        q1 == [q EXCEPT !.credit = reply]
    IN  IF c.threw THEN Respond(q1, 500, ErrorBody)
        ELSE
        LET q2 == [q1 EXCEPT !.remainingQuota = c.val]
            message == createNotificationMessageU(q.headers.topic, q.data, StoreContact)
            q3 == [Step(q2, "createNotificationMessage") EXCEPT !.message = message]
        IN  IF message = NoMessage THEN Respond(q3, 400, ErrorBody)
            ELSE [Step(q3, "sendSMS") EXCEPT
                     !.pc = "sendSMS",
                     !.dispatch = Append(@, [SMSReceiver |-> q.phone,
                                             SMSText |-> message])]

\* lines 38-50
OnCreditU(q, reply) ==
    LET c == checkCreditU(reply)
        q1 == [q EXCEPT !.credit = reply]
    IN  IF c.threw THEN Respond(q1, 500, ErrorBody)
        ELSE
        LET q2 == [q1 EXCEPT !.remainingQuota = c.val]
        IN  IF LessEqZero(c.val) THEN Respond(q2, 402, ErrorBody)
            ELSE
            LET message == createNotificationMessageU(q.headers.topic, q.data, StoreContact)
                q3 == [Step(q2, "createNotificationMessage") EXCEPT !.message = message]
            IN  IF message = NoMessage THEN Respond(q3, 400, ErrorBody)
                ELSE [Step(q3, "sendSMS") EXCEPT
                         !.pc = "sendSMS",
                         !.dispatch = Append(@, [SMSReceiver |-> q.phone,
                                                 SMSText |-> message])]

\* lines 50-56
OnGatewayU(q, reply) ==
    LET s == sendSMSU(reply)
        q1 == [q EXCEPT !.gateway = reply]
    IN  IF s.threw THEN Respond(q1, 500, ErrorBody)
        ELSE Respond(q1, 200, [success |-> TRUE,
                               remaining_quota |-> MinusOne(q.remainingQuota),
                               sent |-> Undef, remaining |-> Undef])

\* ====================================================================
\* Variant "c": src/index.js.  The module calls getRawBody, verifyHmac,
\* extractPhoneNumber and createNotificationMessage without defining them;
\* these four follow sections 4.1 to 4.3 of the specification.
\* ====================================================================

\* section 4.1: false, never an exception, on any internal error
verifyHmacC(key, hmacHeader, body) ==
    IF key = NoEnv THEN Ret(FALSE)
    ELSE LET want == HmacSha256(key, body)
             got == Base64Decode(hmacHeader)
         IN  Ret(got.len = want.len /\ got = want)

\* section 4.2: the first of the five paths holding a non-empty valid phone
extractPhoneNumberC(data) ==
    FirstValid(<<data.customer_phone, data.order_customer_phone,
                 data.checkout_billing_phone, data.billing_phone,
                 data.shipping_phone>>)

\* section 4.3: five recognized topics, placeholders for missing fields
createNotificationMessageC(eventType, data, store) ==
    LET orderNumber == IF Truthy(data.order_number) THEN Interpolate(data.order_number)
                       ELSE NotAvailable
        status == IF Truthy(data.financial_status) THEN Interpolate(data.financial_status)
                  ELSE NotAvailable
        contact == IF Truthy(store) THEN Interpolate(store) ELSE NotAvailable
    IN  CASE eventType \in {"orders/create", "orders/paid", "orders/fulfilled"} ->
                Text(eventType, orderNumber, <<>>)
          [] eventType = "orders/cancelled" -> Text(eventType, orderNumber, contact)
          [] eventType = "orders/updated" -> Text(eventType, orderNumber, status)
          [] OTHER -> NoMessage

\* lines 77-94
checkCreditC(reply) ==
    IF ~reply.ok THEN Throw(Undef)
    ELSE IF reply.data = Num(-5) THEN Throw(Undef)
    ELSE Ret(reply.data)

\* lines 97-99: sendSMS refuses before any request is built
sendSMSRefusesC(count) == count >= MAX_QUOTA

\* lines 111-115
sendSMSC(reply) ==
    IF ~reply.ok THEN Throw(Undef)
    ELSE IF reply.Status # "Success" THEN Throw(Undef)
    ELSE Ret(Undef)

\* lines 10-26
ReceiveC(q, m, h) ==
    LET q0 == Step([q EXCEPT !.method = m, !.headers = h], "method")
    IN  IF m # "POST" THEN Respond(q0, 405, ErrorBody)
        ELSE LET q1 == Step(q0, "headers")
             IN  IF Missing(h.topic) \/ Missing(h.domain) \/ ~h.hmac.present
                 THEN Respond(q1, 401, ErrorBody)
                 ELSE [Step(q1, "getRawBody") EXCEPT !.pc = "getRawBody"]

\* lines 26-42
OnBodyC(q, key, stream) ==
    IF ~stream.ok THEN Respond(q, 500, ErrorBody)
    ELSE
    LET v == verifyHmacC(key, q.headers.hmac, stream.body)
        q1 == [Step(q, "verifyHmac") EXCEPT
                  !.rawBody = stream.body,
                  !.hmacOk = IF v.threw THEN "threw" ELSE IF v.val THEN "true" ELSE "false"]
    IN  IF v.threw THEN Respond(q1, 500, ErrorBody)
        ELSE IF ~v.val THEN Respond(q1, 401, ErrorBody)
        ELSE
        LET p == JSONParse(stream.body)
            q2 == Step(q1, "JSON.parse")
        IN  IF p.threw THEN Respond(q2, 500, ErrorBody)
            ELSE
            LET phone == extractPhoneNumberC(p.val)
                q3 == [Step(q2, "extractPhoneNumber") EXCEPT
                          !.data = p.val, !.phone = phone]
            IN  IF ~Truthy(phone) THEN Respond(q3, 400, ErrorBody)
                ELSE [Step(q3, "checkCredit") EXCEPT !.pc = "checkCredit"]

\* lines 42-54 and 96-111; count is sentCount when sendSMS is entered
OnCreditC(q, reply, count) ==
    LET c == checkCreditC(reply)
        q1 == [q EXCEPT !.credit = reply]
    IN  IF c.threw THEN Respond(q1, 500, ErrorBody)
        ELSE
        LET q2 == [q1 EXCEPT !.remainingQuota = c.val]
        IN  IF LessEqZero(c.val) THEN Respond(q2, 402, ErrorBody)
            ELSE
            LET message == createNotificationMessageC(q.headers.topic, q.data, StoreContact)
                q3 == [Step(q2, "createNotificationMessage") EXCEPT !.message = message]
            IN  IF message = NoMessage THEN Respond(q3, 400, ErrorBody)
                ELSE IF sendSMSRefusesC(count) THEN Respond(Step(q3, "sendSMS"), 500, ErrorBody)
                ELSE [Step(q3, "sendSMS") EXCEPT
                         !.pc = "sendSMS",
                         !.dispatch = Append(@, [SMSReceiver |-> q.phone,
                                                 SMSText |-> message])]

\* SentCountAfterC with "sentCount = 1" in place of "sentCount++"
SentCountAfterCAssign(reply, count) == IF sendSMSC(reply).threw THEN count ELSE 1

\* SentCountAfterC counting every attempt
SentCountAfterCAlways(reply, count) == count + 1

\* line 55: sentCount++ runs only when sendSMS returned
SentCountAfterC(reply, count) == IF sendSMSC(reply).threw THEN count ELSE count + 1

\* lines 54-65; count is sentCount when the gateway reply arrives
OnGatewayC(q, reply, count) ==
    LET s == sendSMSC(reply)
        q1 == [q EXCEPT !.gateway = reply]
    IN  IF s.threw THEN Respond(q1, 500, ErrorBody)
        ELSE Respond(Step(q1, "sentCount++"), 200,
                     [success |-> TRUE, remaining_quota |-> Undef,
                      sent |-> Num(SentCountAfterC(reply, count)),
                      remaining |-> Num(MAX_QUOTA - SentCountAfterC(reply, count))])

\* ====================================================================
\* The runtime: requests arrive, streams end, upstream services reply
\* ====================================================================

TypeOK ==
    /\ variant \in Variants
    /\ secret \in {NoEnv, TrueKey}
    /\ sentCount \in Nat
    /\ DOMAIN req = Slots
    /\ \A r \in Slots :
          req[r].pc \in {"idle", "getRawBody", "checkCredit", "sendSMS", "done"}

Init ==
    /\ variant \in Variants
    /\ secret \in {NoEnv, TrueKey}
    /\ sentCount = 0
    /\ req = [r \in Slots |-> Idle]

Streams == {[ok |-> TRUE, body |-> b] : b \in Bodies} \cup {[ok |-> FALSE, body |-> NoBody]}

\* the runtime invokes the handler with a new request, its method drawn from
\* methods and its headers from headerSets
ReceiveFrom(r, methods, headerSets) ==
    /\ req[r].pc = "idle"
    /\ \E m \in methods, h \in headerSets :
          req' = [req EXCEPT ![r] =
                    CASE variant = "v1" -> Receive1(req[r], m, h)
                      [] variant = "v2" -> Receive2(req[r], m, h)
                      [] variant = "u" -> ReceiveU(req[r], m, h)
                      [] variant = "c" -> ReceiveC(req[r], m, h)]
    /\ UNCHANGED <<variant, secret, sentCount>>

Receive(r) == ReceiveFrom(r, Methods, HeaderSets)

\* getRawBody settles: the stream ended, or emitted "error"
BodyArrivesFrom(r, streams) ==
    /\ req[r].pc = "getRawBody"
    /\ \E stream \in streams :
          req' = [req EXCEPT ![r] =
                    CASE variant = "v1" -> OnBody1(req[r], secret, stream)
                      [] variant = "v2" -> OnBody2(req[r], secret, stream)
                      [] variant = "u" -> OnBodyU(req[r], secret, stream)
                      [] variant = "c" -> OnBodyC(req[r], secret, stream)]
    /\ UNCHANGED <<variant, secret, sentCount>>

BodyArrives(r) == BodyArrivesFrom(r, Streams)

\* the credit service's reply arrives
CreditReturnsFrom(r, replies) ==
    /\ req[r].pc = "checkCredit"
    /\ \E reply \in replies :
          req' = [req EXCEPT ![r] =
                    CASE variant = "v1" -> OnCredit1(req[r], reply)
                      [] variant = "v2" -> OnCredit2(req[r], reply)
                      [] variant = "u" -> OnCreditU(req[r], reply)
                      [] variant = "c" -> OnCreditC(req[r], reply, sentCount)]
    /\ UNCHANGED <<variant, secret, sentCount>>

CreditReturns(r) == CreditReturnsFrom(r, CreditReplies)

\* the SMS gateway's reply arrives
GatewayReturnsFrom(r, replies) ==
    /\ req[r].pc = "sendSMS"
    /\ \E reply \in replies :
          /\ req' = [req EXCEPT ![r] =
                       CASE variant = "v1" -> OnGateway1(req[r], reply)
                         [] variant = "v2" -> OnGateway2(req[r], reply)
                         [] variant = "u" -> OnGatewayU(req[r], reply)
                         [] variant = "c" -> OnGatewayC(req[r], reply, sentCount)]
          /\ sentCount' = IF variant = "c" THEN SentCountAfterC(reply, sentCount)
                          ELSE sentCount
    /\ UNCHANGED <<variant, secret>>

GatewayReturns(r) == GatewayReturnsFrom(r, GatewayReplies)

\* the response has gone out; the slot takes the next request
Recycle(r) ==
    /\ req[r].pc = "done"
    /\ req' = [req EXCEPT ![r] = Idle]
    /\ UNCHANGED <<variant, secret, sentCount>>

Next ==
    \E r \in Slots :
        \/ Receive(r)
        \/ BodyArrives(r)
        \/ CreditReturns(r)
        \/ GatewayReturns(r)
        \/ Recycle(r)

Spec == Init /\ [][Next]_vars

\* ====================================================================
\* One request at a time, over payloads that differ in where a phone sits
\* ====================================================================

PhoneBodies == {BodyA, BodyLate, BodyNotAPhone, BodyNoPhone}
\* what Shopify sends: every header present, the signature that of the body
SignedHeaders(topics, bodies) ==
    [topic : topics, domain : {"shop.myshopify.com"}, hmac : {SigOf(b) : b \in bodies}]
\* the stream delivers the body the signature was computed over
SignedStream(q) ==
    {[ok |-> TRUE, body |-> b] : b \in {x \in PhoneBodies : x = q.headers.hmac.buf.body}}

PostOnly == {"POST"}
PhoneHeaderSets == SignedHeaders({"orders/create", "orders/updated"}, PhoneBodies)

InitPhones ==
    /\ variant \in Variants
    /\ secret = TrueKey
    /\ sentCount = 0
    /\ req = [r \in Slots |-> Idle]

NextPhones ==
    \/ ReceiveFrom(1, PostOnly, PhoneHeaderSets)
    \/ BodyArrivesFrom(1, SignedStream(req[1]))
    \/ CreditReturnsFrom(1, CreditReplies)
    \/ GatewayReturnsFrom(1, GatewayReplies)
    \/ Recycle(1)

SpecPhones == InitPhones /\ [][NextPhones]_vars

\* ====================================================================
\* Valid requests handled at the same time
\* ====================================================================

\* the credit service reports one remaining send, or none
ConcCreditReplies == {Reply(Num(1), ""), Reply(Num(0), "")}
ConcGatewayReplies == {Reply(Null, "Success"), Reply(Null, "Failed")}
ConcHeaderSets == SignedHeaders({"orders/create"}, {BodyA})

InitConc ==
    /\ variant \in Variants
    /\ secret = TrueKey
    /\ sentCount = 0
    /\ req = [r \in ConcSlots |-> Idle]

\* one segment of one of the requests in progress: the event loop runs the
\* segments one at a time, in the order in which their awaits settle
NextOnce ==
    \E r \in ConcSlots :
        \/ ReceiveFrom(r, PostOnly, ConcHeaderSets)
        \/ BodyArrivesFrom(r, SignedStream(req[r]))
        \/ CreditReturnsFrom(r, ConcCreditReplies)
        \/ GatewayReturnsFrom(r, ConcGatewayReplies)

\* each slot serves a single request in the lifetime of the process
SpecOnce == InitConc /\ [][NextOnce]_vars

NextConc ==
    \/ NextOnce
    \/ \E r \in ConcSlots : Recycle(r)

\* the slots serve request after request
SpecConc == InitConc /\ [][NextConc]_vars

\* ====================================================================
\* The two pure helpers on their own: every payload shape, every topic
\* ====================================================================

\* a valid phone that names the path it sits at (1 .. 5)
PathPhone(i) ==
    Str(<<"+", "9", "6", "6", "5", "0", "0", "0", "0", "0", "0", "0">>
        \o <<CHOOSE c \in Digits : DigitVal(c) = i>>)
\* present and truthy, but not a phone
NotAPhone == Str(<<"n", "/", "a">>)

PhoneValues(i) == {Undef, NotAPhone, PathPhone(i)}

Payloads ==
    [customer_phone : PhoneValues(1), order_customer_phone : PhoneValues(2),
     checkout_billing_phone : PhoneValues(3), billing_phone : PhoneValues(4),
     shipping_phone : PhoneValues(5),
     order_number : {Undef, Str(<<"1", "0", "0", "1">>)},
     financial_status : {Undef, Str(<<"p", "a", "i", "d">>)}]

ComposerTopics ==
    {"orders/create", "orders/cancelled", "orders/updated", "orders/paid",
     "orders/fulfilled", "orders/weird_event", "constructor", "toString"}

\* the extractor the deployed variant v calls
extractPhoneNumber(v, data) ==
    CASE v = "v1" -> extractPhoneNumber1(data)
      [] v = "v2" -> extractPhoneNumber2(data)
      [] v = "u" -> extractPhoneNumberU(data)
      [] v = "c" -> extractPhoneNumberC(data)

\* the composer the deployed variant v calls
createNotificationMessage(v, topic, data) ==
    CASE v = "v1" -> createNotificationMessage1(topic, data)
      [] v = "v2" -> createMessage2(topic, data)
      [] v = "u" -> createNotificationMessageU(topic, data, StoreContact)
      [] v = "c" -> createNotificationMessageC(topic, data, StoreContact)

InitPure ==
    /\ variant \in Variants
    /\ secret = TrueKey
    /\ sentCount = 0
    /\ \E d \in Payloads, t \in ComposerTopics :
          req = [r \in Slots |->
                    IF r = 1
                    THEN [Idle EXCEPT !.pc = "input", !.data = d, !.headers.topic = t]
                    ELSE Idle]

Extract(r) ==
    /\ req[r].pc = "input"
    /\ req' = [req EXCEPT ![r] =
                 [Step(req[r], "extractPhoneNumber") EXCEPT
                     !.pc = "extracted",
                     !.phone = extractPhoneNumber(variant, req[r].data)]]
    /\ UNCHANGED <<variant, secret, sentCount>>

Compose(r) ==
    /\ req[r].pc = "extracted"
    /\ req' = [req EXCEPT ![r] =
                 [Step(req[r], "createNotificationMessage") EXCEPT
                     !.pc = "composed",
                     !.message = createNotificationMessage(variant, req[r].headers.topic,
                                                           req[r].data)]]
    /\ UNCHANGED <<variant, secret, sentCount>>

NextPure ==
    \E r \in Slots :
        \/ Extract(r)
        \/ Compose(r)

SpecPure == InitPure /\ [][NextPure]_vars

\* ====================================================================
\* Properties
\* ====================================================================

Count(seq, x) == Cardinality({i \in DOMAIN seq : seq[i] = x})
Did(q, name) == \E i \in DOMAIN q.trace : q.trace[i] = name
\* the request ended and its only response carries this status
Sent(q, code) ==
    q.pc = "done" /\ Len(q.responses) = 1 /\ q.responses[1].status = code

\* the header is the base64 HMAC-SHA256 of the raw body under the configured secret
SignatureCorrect(q) ==
    /\ secret # NoEnv
    /\ q.headers.hmac.present
    /\ q.headers.hmac.b64
    /\ q.headers.hmac.buf = HmacSha256(secret, q.rawBody)

\* the request got as far as verification: verifyHmac was called on its body
Verified(q) == Did(q, "verifyHmac")

\* the five event types of section 4.3
RecognizedTopics ==
    {"orders/create", "orders/cancelled", "orders/updated", "orders/paid",
     "orders/fulfilled"}

\* the phone section 4.2 prescribes for a payload
ExpectedPhone(data) ==
    FirstValid(<<data.customer_phone, data.order_customer_phone,
                 data.checkout_billing_phone, data.billing_phone,
                 data.shipping_phone>>)

\* a credit reply arrived and carried a number
CreditNumber(q) == q.credit.ok /\ q.credit.data.t = "number"

\* the deployed module defines every function it calls
HelpersInSource == variant \in {"v1", "v2", "u"}

\* C1 (first half): a decode, a credit call or a dispatch in a request is
\* preceded, in that request, by a verifyHmac call that returned true.
VerificationGates ==
    \A r \in Slots :
        LET q == req[r]
        IN  /\ \A i \in DOMAIN q.trace :
                  q.trace[i] \in {"JSON.parse", "checkCredit", "sendSMS"} =>
                      /\ q.hmacOk = "true"
                      /\ \E j \in 1 .. (i - 1) : q.trace[j] = "verifyHmac"
            /\ q.dispatch # <<>> => q.hmacOk = "true"

\* C1: verification gates decode, credit call and dispatch, and a request
\* whose signature is invalid ends with status 401 without a dispatch.
C1_VerificationGatesAnd401 ==
    HelpersInSource =>
    /\ VerificationGates
    /\ \A r \in Slots :
          LET q == req[r]
          IN  (q.pc = "done" /\ Verified(q) /\ ~SignatureCorrect(q)) =>
                  (Sent(q, 401) /\ q.dispatch = <<>>)

\* C2: verifyHmac never throws; on a header that is not the correct HMAC of
\* the raw body it returns false and the request ends 401, never 500.
C2_VerifyNeverThrows ==
    HelpersInSource =>
    \A r \in Slots :
        LET q == req[r]
        IN  /\ q.hmacOk # "threw"
            /\ (Verified(q) /\ ~SignatureCorrect(q)) =>
                   (q.hmacOk = "false" /\ Sent(q, 401))

\* C3: a dispatch is made only after a credit reply that is a number > 0, and
\* a credit reply that is not a number ends the request 500 without a send.
C3_DispatchOnlyOnPositiveCredit ==
    HelpersInSource =>
    \A r \in Slots :
        LET q == req[r]
        IN  /\ q.dispatch # <<>> => (CreditNumber(q) /\ q.credit.data.n > 0)
            /\ (q.credit.ok /\ q.credit.data.t # "number") =>
                   (Sent(q, 500) /\ q.dispatch = <<>>)

\* C4: a credit reply that is a number <= 0 ends the request 402 without a
\* dispatch.
C4_NonPositiveCreditIs402 ==
    HelpersInSource =>
    \A r \in Slots :
        LET q == req[r]
        IN  (CreditNumber(q) /\ q.credit.data.n <= 0) =>
                (Sent(q, 402) /\ q.dispatch = <<>>)

\* C5: the exhaustion sentinel -5 from the credit service ends the request
\* 402, not 500, without a dispatch.
C5_SentinelIs402 ==
    HelpersInSource =>
    \A r \in Slots :
        LET q == req[r]
        IN  (q.credit.ok /\ q.credit.data = Num(-5)) =>
                (Sent(q, 402) /\ ~Sent(q, 500) /\ q.dispatch = <<>>)

\* an otherwise valid request: POST, all headers, valid signature, decodable
\* body holding a valid phone
OtherwiseValid(q) ==
    /\ q.method = "POST"
    /\ q.hmacOk = "true"
    /\ Did(q, "extractPhoneNumber")
    /\ Truthy(ExpectedPhone(q.data))

\* C6: an otherwise valid request with an unrecognized topic ends 400 with
\* neither a credit call nor a dispatch.
C6_UnknownTopicIs400NoUpstream ==
    HelpersInSource =>
    \A r \in Slots :
        LET q == req[r]
        IN  (OtherwiseValid(q) /\ q.headers.topic \notin RecognizedTopics) =>
                /\ ~Did(q, "checkCredit")
                /\ q.dispatch = <<>>
                /\ q.pc = "done" => Sent(q, 400)

C8_NonPostIs405 ==
    \A r \in Slots :
        LET q == req[r]
        IN  (q.pc # "idle" /\ q.method # "POST") =>
                /\ Sent(q, 405)
                /\ ~Did(q, "getRawBody") /\ q.rawBody = NoBody
                /\ ~Did(q, "JSON.parse")
                /\ ~Did(q, "checkCredit")
                /\ ~Did(q, "sendSMS") /\ q.dispatch = <<>>

C8_Witness ==
    \E r \in Slots :
        /\ req[r].method = "GET"
        /\ req[r].headers = [topic |-> "orders/create", domain |-> "shop.myshopify.com",
                             hmac |-> SigOf(BodyA)]
        /\ Sent(req[r], 405)

\* at least one of the three required headers is missing or empty
HeaderMissing(h) == Missing(h.topic) \/ Missing(h.domain) \/ ~h.hmac.present

\* C9: a POST request lacking one of the three required headers ends 401
\* before the body is read or parsed, without a credit call or a dispatch.
C9_MissingHeaderIs401 ==
    \A r \in Slots :
        LET q == req[r]
        IN  (q.pc # "idle" /\ q.method = "POST" /\ HeaderMissing(q.headers)) =>
                /\ Sent(q, 401)
                /\ ~Did(q, "getRawBody") /\ q.rawBody = NoBody
                /\ ~Did(q, "verifyHmac")
                /\ ~Did(q, "JSON.parse")
                /\ ~Did(q, "checkCredit")
                /\ ~Did(q, "sendSMS") /\ q.dispatch = <<>>

C9_Witness ==
    \E r \in Slots :
        /\ req[r].method = "POST"
        /\ req[r].headers = [topic |-> "orders/create", domain |-> "",
                             hmac |-> SigOf(BodyA)]
        /\ Sent(req[r], 401)

\* C10: a request sends at most one response and exactly one once its handler
\* has ended; no step of the pipeline runs twice, and none runs after the
\* response.
C10_ExactlyOneResponse ==
    \A r \in Slots :
        LET q == req[r]
        IN  /\ Len(q.responses) <= 1
            /\ (q.pc = "done") <=> (Len(q.responses) = 1)
            /\ \A i, j \in DOMAIN q.trace : q.trace[i] = q.trace[j] => i = j
            /\ \A i \in DOMAIN q.trace :
                  q.trace[i] = "res.status" => i = Len(q.trace)
            /\ Len(q.dispatch) <= Count(q.trace, "sendSMS")
            /\ q.pc \in {"getRawBody", "checkCredit", "sendSMS"} =>
                  q.trace[Len(q.trace)] = q.pc

\* the whole pipeline ran, each of its nine steps once, and answered 200
C10_Witness ==
    \E r \in Slots :
        /\ Sent(req[r], 200)
        /\ variant = "v1"
        /\ req[r].trace = <<"method", "headers", "getRawBody", "verifyHmac", "JSON.parse",
                            "extractPhoneNumber", "checkCredit",
                            "createNotificationMessage", "sendSMS", "res.status">>

\* ====================================================================
\* The helpers, claim by claim (checked under SpecPure)
\* ====================================================================

\* C11: the composer of the deployed module returns a non-empty message
\* exactly when the topic is one of the five recognized event types, and no
\* value at all for every other topic.
C11_MessageIffRecognized ==
    HelpersInSource =>
    \A r \in Slots :
        LET q == req[r]
        IN  q.pc = "composed" =>
                /\ (q.message.kind = "string") <=> (q.headers.topic \in RecognizedTopics)
                /\ q.headers.topic \notin RecognizedTopics => q.message = NoMessage

\* C12: when some path of the payload holds a valid phone, the extractor of
\* the deployed module returns the value at the earliest such path, in the
\* order customer.phone, order.customer.phone, checkout.billing_address.phone,
\* billing_address.phone, shipping_address.phone.
C12_EarliestValidPhone ==
    HelpersInSource =>
    \A r \in Slots :
        LET q == req[r]
        IN  (q.pc \in {"extracted", "composed"} /\ Truthy(ExpectedPhone(q.data))) =>
                q.phone = ExpectedPhone(q.data)

\* C18: a message composed for a recognized topic never carries the text
\* "undefined" where a field is interpolated, and a missing order number is
\* rendered as a non-empty placeholder.
C18_PlaceholderNeverUndefined ==
    HelpersInSource =>
    \A r \in Slots :
        LET q == req[r]
        IN  (q.pc = "composed" /\ q.message.kind = "string") =>
                /\ q.message.number # UndefinedChars
                /\ q.message.tail # UndefinedChars
                /\ ~Truthy(q.data.order_number) => q.message.number # <<>>

\* ====================================================================
\* Phones on the way to the gateway (checked under SpecPhones)
\* ====================================================================

\* C13: the receiver of every dispatch matches the phone pattern, a value
\* that is present but not a phone at an earlier path gives way to a valid
\* phone at a later one, and a payload without a valid phone at any path ends
\* 400 with neither a credit call nor a dispatch.
C13_ReceiverIsValidPhone ==
    HelpersInSource =>
    \A r \in Slots :
        LET q == req[r]
        IN  /\ \A i \in DOMAIN q.dispatch : isValidPhone(q.dispatch[i].SMSReceiver)
            /\ (Did(q, "extractPhoneNumber") /\ Truthy(ExpectedPhone(q.data))) =>
                   q.phone = ExpectedPhone(q.data)
            /\ (Did(q, "extractPhoneNumber") /\ ~Truthy(ExpectedPhone(q.data))) =>
                   /\ Sent(q, 400)
                   /\ ~Did(q, "checkCredit")
                   /\ q.dispatch = <<>>

\* ====================================================================
\* Upstream calls of one request (checked under Spec)
\* ====================================================================

\* a reply of the gateway arrived and was not a success
DispatchFailed(q) ==
    q.gateway # NoReply /\ (~q.gateway.ok \/ q.gateway.Status # "Success")

\* C16: a request calls the credit service at most once and the gateway at
\* most once, and a gateway reply that is not a success (Status other than
\* "Success", or a transport error) ends the request 500 with that single
\* dispatch.
C16_NoRetry ==
    \A r \in Slots :
        LET q == req[r]
        IN  /\ Count(q.trace, "checkCredit") <= 1
            /\ Count(q.trace, "sendSMS") <= 1
            /\ Len(q.dispatch) <= 1
            /\ DispatchFailed(q) => (Sent(q, 500) /\ Len(q.dispatch) = 1)

\* the gateway answered with a Status other than "Success": one credit call,
\* one dispatch, and the request ended 500
C16_Witness ==
    \E r \in Slots :
        /\ req[r].gateway = Reply(Null, "Failed")
        /\ Count(req[r].trace, "checkCredit") = 1
        /\ Count(req[r].trace, "sendSMS") = 1
        /\ Len(req[r].dispatch) = 1
        /\ Sent(req[r], 500)

\* C17: a credit call that fails (the request is rejected, or the reply is
\* not a number) ends the request 500, never 200 or 402, and no dispatch is
\* made.
C17_CreditFailureIs500 ==
    HelpersInSource =>
    \A r \in Slots :
        LET q == req[r]
        IN  (q.credit # NoReply /\ (~q.credit.ok \/ TypeOf(q.credit.data) # "number")) =>
                /\ Sent(q, 500)
                /\ q.dispatch = <<>>
                /\ ~Did(q, "sendSMS")

\* a request of slot r went from running to done in this step
Ends(r) == req[r].pc # "done" /\ req'[r].pc = "done"

\* the step in which sendSMS returned for the request of slot r
DispatchSucceeds(r) ==
    /\ req[r].pc = "sendSMS"
    /\ Len(req[r].dispatch) = 1
    /\ req'[r].gateway = Reply(Null, "Success")
    /\ Sent(req'[r], 200)

\* C20: sentCount changes only by +1, and only in the step in which a
\* dispatch returned successfully; a request ending with any status other
\* than 200 leaves it as it was, and it never decreases.
C20_SentCountFrame ==
    [][ /\ sentCount' >= sentCount
        /\ sentCount' # sentCount =>
              /\ sentCount' = sentCount + 1
              /\ \E r \in Slots : DispatchSucceeds(r)
        /\ \A r \in Slots :
              (Ends(r) /\ req'[r].responses[1].status \in {405, 401, 400, 402, 500}) =>
                  sentCount' = sentCount ]_vars

\* after one counted send, a dispatch the gateway refused ended 500 and left
\* the counter at 1
C20_Witness ==
    /\ variant = "c"
    /\ sentCount = 1
    /\ \E r \in Slots :
          /\ Sent(req[r], 500)
          /\ Len(req[r].dispatch) = 1
          /\ req[r].gateway = Reply(Null, "Failed")

\* ====================================================================
\* Requests in progress together (checked under SpecOnce and SpecConc)
\* ====================================================================

\* C14: every dispatch rests on nothing but the reading its own request took
\* from the credit service, a reply the handler found > 0; the requests in
\* progress next to it, and the dispatches they made on the same reading, have
\* no part in it.
C14_DispatchOnOwnReading ==
    \A r \in ConcSlots :
        LET q == req[r]
        IN  q.dispatch # <<>> =>
                /\ q.credit.ok
                /\ ~LessEqZero(q.credit.data)
                /\ q.remainingQuota = q.credit.data
                /\ Len(q.dispatch) = 1

\* two requests were both told 1 remaining send and both called the gateway;
\* both calls are in flight, neither has been answered
C14_Witness ==
    \E r1, r2 \in ConcSlots :
        /\ r1 # r2
        /\ variant = "v1"
        /\ \A r \in {r1, r2} :
              /\ req[r].pc = "sendSMS"
              /\ req[r].credit = Reply(Num(1), "")
              /\ Len(req[r].dispatch) = 1
              /\ req[r].gateway = NoReply

\* the requests of this process whose dispatch returned successfully
Succeeded == {r \in ConcSlots : Sent(req[r], 200) /\ req[r].gateway = Reply(Null, "Success")}

\* C15 as claimed: when the requests in progress together have each had a
\* successful dispatch, sentCount is smaller than their number.
C15_UpdatesAreLost ==
    (variant = "c" /\ Succeeded = ConcSlots) => sentCount < Cardinality(Succeeded)

\* C15 as it holds: no increment is lost; whatever the interleaving, sentCount
\* equals the number of dispatches that returned successfully, and each 200
\* response reports a different sent count.
C15_NoLostUpdate ==
    variant = "c" =>
        /\ sentCount = Cardinality(Succeeded)
        /\ \A r1, r2 \in Succeeded :
              req[r1].responses[1].body.sent = req[r2].responses[1].body.sent => r1 = r2
        /\ \A r \in Succeeded : req[r].responses[1].body.sent.n <= sentCount

\* every request in progress had a successful dispatch and all were counted
C15_Witness ==
    /\ variant = "c"
    /\ Succeeded = ConcSlots
    /\ sentCount = NumConc
    /\ \E r \in ConcSlots : req[r].responses[1].body.sent = Num(1)

\* C19: sentCount never exceeds MAX_QUOTA and no 200 response reports a
\* negative quota.remaining.
C19_SentCountWithinQuota ==
    variant = "c" =>
        /\ sentCount <= MAX_QUOTA
        /\ \A r \in ConcSlots :
              Sent(req[r], 200) => req[r].responses[1].body.remaining.n >= 0

====
